---- MODULE Spec2Model ----
(***************************************************************************)
(* Model of ds-sanitize-numbervariancereducer (src/main.py).               *)
(*                                                                         *)
(* A DataFrame is a sequence of columns [name, dtype, values]; dtype is    *)
(* the pandas dtype the Loader infers ("int64", "float64", "object",      *)
(* "bool").  A cell is [null, val].  float64 cells hold a decimal          *)
(* fixed-point number: val counts hundredths (val = 125 is 1.25), a null   *)
(* cell is NaN.  int64 and bool cells hold val itself (bool: 0 or 1).      *)
(* The arithmetic of Series.round (scale by 10^decimals, rint, scale back) *)
(* is carried out exactly on these decimals; the representation error of   *)
(* IEEE doubles is not modelled.                                           *)
(***************************************************************************)
EXTENDS Integers, Sequences, FiniteSets, TLC

VARIABLES pc, args, file_type, output_file, df, files, files0, exc, log,
          exit_status, read_fmt, write_fmt, df0, df1, trace

vars == <<pc, args, file_type, output_file, df, files, files0, exc, log,
          exit_status, read_fmt, write_fmt, df0, df1, trace>>

(* ---------------------------- bounds ----------------------------------- *)
MaxRows == 2
MaxK == 3
MaxPrec == 2

(* ------------------------- values and tables --------------------------- *)
None == "None"

Abs(x) == IF x < 0 THEN -x ELSE x

RECURSIVE Pow10(_)
Pow10(n) == IF n <= 0 THEN 1 ELSE 10 * Pow10(n - 1)

Cell(v) == [null |-> FALSE, val |-> v]
NaN == [null |-> TRUE, val |-> 0]

\* multiples of 0.05 (float64) and of 5 (int64): ties at one decimal and at tens
Magnitudes == {5 * k : k \in -MaxK..MaxK}
FloatCells == {Cell(m) : m \in Magnitudes} \cup {NaN}
IntCells == {Cell(m) : m \in Magnitudes}
StrCells == {Cell("x"), Cell("1.5")}
BoolCells == {Cell(0), Cell(1)}

CellsOf(dtype) ==
  CASE dtype = "float64" -> FloatCells
    [] dtype = "int64" -> IntCells
    [] dtype = "object" -> StrCells
    [] dtype = "bool" -> BoolCells

DTypes == {"int64", "float64", "object", "bool"}

SeqsOf(S, n) == [1..n -> S]

\* the columns a Loader can produce with n rows: every cell vector of a dtype
Columns(name, n) ==
  UNION {{[name |-> name, dtype |-> t, values |-> vs] : vs \in SeqsOf(CellsOf(t), n)}
         : t \in DTypes}

\* a fixed companion column per dtype, one cell per row
Companion(name, t, n) ==
  [name |-> name, dtype |-> t,
   values |-> [i \in 1..n |->
                 CASE t = "float64" -> IF i = 1 THEN NaN ELSE Cell(5 * i)
                   [] t = "int64" -> Cell(5 * i)
                   [] t = "object" -> IF i = 1 THEN Cell("x") ELSE Cell("1.5")
                   [] t = "bool" -> Cell(i % 2)]]

\* the dtypes of the column that accompanies the varied one
CompanionTypes == {"float64", "object"}

TablesOfRows(n) ==
  {<<c>> : c \in Columns("a", n)}
  \cup {<<c, Companion("b", t, n)>> : c \in Columns("a", n), t \in CompanionTypes}
  \cup {<<Companion("a", t, n), c>> : c \in Columns("b", n), t \in CompanionTypes}

Tables == UNION {TablesOfRows(n) : n \in 1..MaxRows}

ColumnNames == {"a", "b", "c"}
Precisions == -MaxPrec..MaxPrec

(* --------------------------- pandas / numpy ---------------------------- *)
HasColumn(d, column_name) == \E i \in 1..Len(d) : d[i].name = column_name

ColumnIndex(d, column_name) == CHOOSE i \in 1..Len(d) : d[i].name = column_name

\* pd.api.types.is_numeric_dtype: integer, floating and boolean dtypes are numeric
is_numeric_dtype(dtype) == dtype \in {"int64", "float64", "bool"}

\* number of decimal digits a cell of the dtype stores after the point
Digits(dtype) == IF dtype = "float64" THEN 2 ELSE 0

\* rint with ties rounded up instead of to even
np_rint_half_up(num, den) ==
  LET q == num \div den
      r == num % den
  IN  IF 2 * r < den THEN q ELSE q + 1

\* numpy rint of the exact quotient num / den (den > 0), ties to the even integer
np_rint(num, den) ==
  LET q == num \div den
      r == num % den
  IN  IF 2 * r < den THEN q
      ELSE IF 2 * r > den THEN q + 1
      ELSE IF q % 2 = 0 THEN q ELSE q + 1

\* around that forgets to scale the rinted number back
np_round_unscaled(v, digits, decimals) ==
  IF decimals >= 0
    THEN IF digits = 0
           THEN v
           ELSE np_rint(v * Pow10(decimals), Pow10(digits)) * Pow10(digits)
    ELSE np_rint(v, Pow10(digits) * Pow10(-decimals)) * Pow10(digits)

\* numpy around on one stored number v with `digits` decimals:
\* decimals >= 0: rint(x * 10^decimals) / 10^decimals (integers are copied);
\* decimals <  0: rint(x / 10^-decimals) * 10^-decimals
np_round(v, digits, decimals) ==
  IF decimals >= 0
    THEN IF digits = 0
           THEN v
           ELSE (np_rint(v * Pow10(decimals), Pow10(digits)) * Pow10(digits))
                  \div Pow10(decimals)
    ELSE np_rint(v, Pow10(digits) * Pow10(-decimals)) * Pow10(-decimals) * Pow10(digits)

\* Series.round(decimals): NaN stays NaN, bool blocks are returned as a copy
\* (pandas 2.x Block.round)
round(column, decimals) ==
  IF column.dtype = "bool"
    THEN column
    ELSE [column EXCEPT !.values =
            [i \in 1..Len(column.values) |->
               IF column.values[i].null
                 THEN column.values[i]
                 ELSE Cell(np_round(column.values[i].val, Digits(column.dtype), decimals))]]

ErrorLog(origin, kind) == [level |-> "ERROR", origin |-> origin, kind |-> kind]
InfoLog(origin) == [level |-> "INFO", origin |-> origin, kind |-> None]

\* a sanitizer that rounds the whole frame (df.round(precision)) after its checks
sanitize_whole_frame(d, column_name, precision) ==
  IF ~HasColumn(d, column_name)
    THEN [df |-> d, raised |-> "KeyError", log |-> <<ErrorLog("sanitize", "KeyError")>>]
    ELSE LET i == ColumnIndex(d, column_name)
         IN  IF ~is_numeric_dtype(d[i].dtype)
               THEN [df |-> d, raised |-> "TypeError",
                     log |-> <<ErrorLog("sanitize", "TypeError")>>]
               ELSE [df |-> [j \in 1..Len(d) |->
                               IF is_numeric_dtype(d[j].dtype)
                                 THEN round(d[j], precision) ELSE d[j]],
                     raised |-> None, log |-> <<>>]

\* a sanitizer that looks the column up with df.get(column_name): an absent column
\* reads as None, which is not numeric
sanitize_with_get(d, column_name, precision) ==
  IF ~HasColumn(d, column_name)
    THEN [df |-> d, raised |-> "TypeError",
          log |-> <<ErrorLog("sanitize", "TypeError")>>]
    ELSE LET i == ColumnIndex(d, column_name)
         IN  IF ~is_numeric_dtype(d[i].dtype)
               THEN [df |-> d, raised |-> "TypeError",
                     log |-> <<ErrorLog("sanitize", "TypeError")>>]
               ELSE [df |-> [d EXCEPT ![i] = round(d[i], precision)],
                     raised |-> None, log |-> <<>>]

\* sanitize_number_variance(df, column_name, precision): the frame returned (or left
\* behind), the exception that leaves the function, and the messages it logs
sanitize_number_variance(d, column_name, precision) ==
  IF ~HasColumn(d, column_name)
    THEN [df |-> d, raised |-> "KeyError", log |-> <<ErrorLog("sanitize", "KeyError")>>]
    ELSE LET i == ColumnIndex(d, column_name)
         IN  IF ~is_numeric_dtype(d[i].dtype)
               THEN [df |-> d, raised |-> "TypeError",
                     log |-> <<ErrorLog("sanitize", "TypeError")>>]
               ELSE [df |-> [d EXCEPT ![i] = round(d[i], precision)],
                     raised |-> None, log |-> <<>>]

\* one entry of the history of operations: the step and the exception it raised
Step(step, kind) == [step |-> step, raised |-> kind]

(* ------------------- the Sanitizer called on its own ------------------- *)
Idle ==
  /\ file_type = None /\ output_file = None /\ files = <<>> /\ files0 = <<>>
  /\ exc = None /\ exit_status = -1 /\ read_fmt = None /\ write_fmt = None

InitSanitize ==
  /\ pc = "call"
  /\ df \in Tables
  /\ df0 = df
  /\ df1 = df
  /\ args \in [column_name : ColumnNames, precision : Precisions]
  /\ trace = <<>>
  /\ log = <<>>
  /\ Idle

\* first call of sanitize_number_variance(df, column_name, precision)
SanitizeOnce ==
  /\ pc = "call"
  /\ LET r == sanitize_number_variance(df, args.column_name, args.precision)
     IN  /\ df' = r.df
         /\ df1' = r.df
         /\ trace' = Append(trace, Step("sanitize", r.raised))
         /\ log' = log \o r.log
  /\ pc' = "again"
  /\ UNCHANGED <<args, file_type, output_file, files, files0, exc, exit_status,
                 read_fmt, write_fmt, df0>>

\* second call, on the frame the first call returned, with the same arguments
SanitizeAgain ==
  /\ pc = "again"
  /\ trace[1].raised = None
  /\ LET r == sanitize_number_variance(df, args.column_name, args.precision)
     IN  /\ df' = r.df
         /\ trace' = Append(trace, Step("sanitize", r.raised))
         /\ log' = log \o r.log
  /\ pc' = "returned"
  /\ UNCHANGED <<args, file_type, output_file, files, files0, exc, exit_status,
                 read_fmt, write_fmt, df0, df1>>

NextSanitize == SanitizeOnce \/ SanitizeAgain

SpecSanitize == InitSanitize /\ [][NextSanitize]_vars

(* ------------------ properties of the Sanitizer alone ------------------ *)
\* round-half-to-even stated as a property of the result: the multiple of 10^-p
\* nearest to the number, and of two equally near multiples the even one
RoundHalfEven(v, digits, p) ==
  IF p >= digits
    THEN v
    ELSE LET G == Pow10(digits - p)
             K == (-(Abs(v) \div G) - 1)..((Abs(v) \div G) + 1)
             Nearest(k) == \A j \in K : Abs(v - G * k) <= Abs(v - G * j)
         IN  G * (CHOOSE k \in K :
                    /\ Nearest(k)
                    /\ (\E j \in K : j # k /\ Nearest(j)) => k % 2 = 0)

Called == pc \in {"again", "returned"}
Target(d) == d[ColumnIndex(d, args.column_name)]
TargetIsNumber == HasColumn(df0, args.column_name)
                    /\ Target(df0).dtype \in {"int64", "float64"}

C2_OnlyTargetColumnChanges ==
  (Called /\ trace[1].raised = None) =>
    /\ Len(df1) = Len(df0)
    /\ \A i \in 1..Len(df0) :
         /\ df1[i].name = df0[i].name
         /\ Len(df1[i].values) = Len(df0[i].values)
         /\ df0[i].name # args.column_name => df1[i] = df0[i]

C2_Witness ==
  /\ pc = "again" /\ trace[1].raised = None /\ Len(df0) = 2
  /\ Target(df1) # Target(df0)
  /\ \E i \in 1..2 : df0[i].name # args.column_name /\ df0[i].dtype = "float64"
                       /\ Len(df0[i].values) = 2 /\ args.precision = 0

\* C3: a column name that is not in the table always fails with KeyError, never
\* with TypeError and never succeeding, and the table is left as it was
C3_AbsentColumnKeyError ==
  (Called /\ ~HasColumn(df0, args.column_name)) =>
    /\ trace[1].raised = "KeyError"
    /\ df1 = df0

C3_Witness ==
  /\ pc = "again" /\ ~HasColumn(df0, args.column_name) /\ Len(df0) = 2
  /\ trace = <<Step("sanitize", "KeyError")>>

\* C4: an existing column that is neither integer nor floating-point always fails
\* with TypeError and the table is left as it was
C4_NonNumericTypeError ==
  (Called /\ HasColumn(df0, args.column_name)
          /\ Target(df0).dtype \notin {"int64", "float64"}) =>
    /\ trace[1].raised = "TypeError"
    /\ df1 = df0

\* C5: a second call with the same column and precision succeeds and returns the
\* table the first call returned
C5_Idempotent ==
  pc = "returned" => (trace[2].raised = None /\ df = df1)

C5_Witness ==
  /\ pc = "returned" /\ trace[1].raised = None /\ trace[2].raised = None /\ df1 # df0 /\ df = df1
  /\ args.precision < 0

(* ------------------------------ main ----------------------------------- *)
\* a path is its stem and its extension as typed on the command line
Path(stem, ext) == [stem |-> stem, ext |-> ext]
InputPaths == {Path("d", ".csv"), Path("d", ".JSON"), Path("data", "")}
OutPath == Path("out", ".txt")

\* str.lower() on an extension
lower(ext) ==
  CASE ext = ".CSV" -> ".csv"
    [] ext = ".JSON" -> ".json"
    [] OTHER -> ext

\* what a path holds: nothing, a serialized table, or the rest of a failed write
Missing == [state |-> "missing", table |-> <<>>]
File(t) == [state |-> "ok", table |-> t]
Partial == [state |-> "partial", table |-> <<>>]

NoDF == <<>>

\* the tables an input file holds: one row, alone or beside a string column
MainTables ==
  {<<c>> : c \in Columns("a", 1)}
  \cup {<<c, Companion("b", "object", 1)>> : c \in Columns("a", 1)}

\* the exceptions the tabular library may raise from a read or a write;
\* "Exception" stands for every class none of main's specific clauses catches
LibraryErrors == {"FileNotFoundError", "ValueError", "TypeError", "KeyError", "Exception"}

\* the parsed command line; argv tells whether argparse accepts it, rejects it
\* (missing positional, non-integer --precision, --file_type outside its choices)
\* or is asked for -h
Args ==
  [argv : {"ok", "bad", "help"},
   input_file : InputPaths,
   column_name : ColumnNames,
   precision : Precisions,
   output_file : {None, OutPath.stem},
   file_type : {None, "csv", "json"}]

OutputPathOf(a) == IF a.output_file = None THEN a.input_file ELSE OutPath

Init ==
  /\ pc = "start"
  /\ args \in Args
  /\ file_type = None
  /\ output_file = None
  /\ df = NoDF /\ df0 = NoDF /\ df1 = NoDF
  /\ \E content \in {Missing} \cup {File(t) : t \in MainTables} :
       files = [q \in {args.input_file, OutPath} |->
                  IF q = args.input_file THEN content
                  ELSE File(<<Companion("a", "int64", 1)>>)]
  /\ files0 = files
  /\ exc = None
  /\ log = <<>>
  /\ exit_status = -1
  /\ read_fmt = None /\ write_fmt = None
  /\ trace = <<>>

\* parser.parse_args() and the locals of main; argparse exits with status 2 on a
\* command line it rejects and with status 0 after printing help
ParseArgs ==
  /\ pc = "start"
  /\ IF args.argv = "ok"
       THEN /\ output_file' = OutputPathOf(args)
            /\ file_type' = args.file_type
            /\ pc' = "infer"
            /\ UNCHANGED exit_status
       ELSE /\ exit_status' = (IF args.argv = "bad" THEN 2 ELSE 0)
            /\ pc' = "exited"
            /\ UNCHANGED <<output_file, file_type>>
  /\ UNCHANGED <<args, df, files, files0, exc, log, read_fmt, write_fmt, df0, df1, trace>>

\* file-type inference that ignores --file_type and always looks at the extension
infer_from_extension_only(input_file, given) ==
  IF lower(input_file.ext) = ".csv" THEN "csv"
  ELSE IF lower(input_file.ext) = ".json" THEN "json"
  ELSE "ValueError"

\* the file type main settles on: --file_type when given, else the lower-cased
\* extension of the input path, else a ValueError
infer_file_type(input_file, given) ==
  IF given # None THEN given
  ELSE IF lower(input_file.ext) = ".csv" THEN "csv"
  ELSE IF lower(input_file.ext) = ".json" THEN "json"
  ELSE "ValueError"

ResolveFileType ==
  /\ pc = "infer"
  /\ LET t == infer_file_type(args.input_file, file_type)
     IN  IF t = "ValueError"
           THEN /\ exc' = "ValueError"
                /\ pc' = "except"
                /\ trace' = Append(trace, Step("resolve", "ValueError"))
                /\ UNCHANGED <<file_type, log>>
           ELSE /\ file_type' = t
                /\ log' = (IF file_type = None THEN Append(log, InfoLog("main")) ELSE log)
                /\ pc' = "read"
                /\ trace' = Append(trace, Step("resolve", None))
                /\ UNCHANGED exc
  /\ UNCHANGED <<args, output_file, df, files, files0, exit_status, read_fmt, write_fmt,
                 df0, df1>>

\* pd.read_csv / pd.read_json on the input path
Load ==
  /\ pc = "read"
  /\ read_fmt' = file_type
  /\ \E kind \in {None} \cup LibraryErrors :
       /\ files[args.input_file].state = "missing" => kind = "FileNotFoundError"
       /\ IF kind = None
            THEN /\ df' = files[args.input_file].table
                 /\ pc' = "sanitize"
                 /\ UNCHANGED exc
            ELSE /\ exc' = kind
                 /\ pc' = "except"
                 /\ UNCHANGED df
       /\ trace' = Append(trace, Step("load", kind))
  /\ UNCHANGED <<args, file_type, output_file, files, files0, log, exit_status, write_fmt,
                 df0, df1>>

\* a call that logs the failure and goes on to the Writer with the frame as it is
Sanitize_swallow ==
  /\ pc = "sanitize"
  /\ LET r == sanitize_number_variance(df, args.column_name, args.precision)
     IN  /\ df0' = df
         /\ df' = r.df
         /\ df1' = r.df
         /\ log' = log \o r.log
         /\ trace' = Append(trace, Step("sanitize", r.raised))
         /\ pc' = "write"
         /\ UNCHANGED exc
  /\ UNCHANGED <<args, file_type, output_file, files, files0, exit_status, read_fmt,
                 write_fmt>>

\* df = sanitize_number_variance(df, column_name, precision)
Sanitize ==
  /\ pc = "sanitize"
  /\ LET r == sanitize_number_variance(df, args.column_name, args.precision)
     IN  /\ df0' = df
         /\ df' = r.df
         /\ df1' = r.df
         /\ log' = log \o r.log
         /\ trace' = Append(trace, Step("sanitize", r.raised))
         /\ IF r.raised = None
              THEN pc' = "write" /\ UNCHANGED exc
              ELSE pc' = "except" /\ exc' = r.raised
  /\ UNCHANGED <<args, file_type, output_file, files, files0, exit_status, read_fmt,
                 write_fmt>>

\* df.to_csv / df.to_json on the output path, the closing info message and the
\* return of main; a failed write may leave a partial file behind
Write ==
  /\ pc = "write"
  /\ write_fmt' = file_type
  /\ \E kind \in {None} \cup (LibraryErrors \ {"FileNotFoundError"}) :
       /\ IF kind = None
            THEN /\ files' = [files EXCEPT ![output_file] = File(df)]
                 /\ log' = Append(log, InfoLog("main"))
                 /\ exit_status' = 0
                 /\ pc' = "exited"
                 /\ UNCHANGED exc
            ELSE /\ files' \in {files, [files EXCEPT ![output_file] = Partial]}
                 /\ exc' = kind
                 /\ pc' = "except"
                 /\ UNCHANGED <<log, exit_status>>
       /\ trace' = Append(trace, Step("write", kind))
  /\ UNCHANGED <<args, file_type, output_file, df, files0, read_fmt, df0, df1>>

Exit1 ==
  /\ exit_status' = 1
  /\ pc' = "exited"
  /\ UNCHANGED <<args, file_type, output_file, df, files, files0, exc, read_fmt,
                 write_fmt, df0, df1, trace>>

\* except FileNotFoundError
ExceptFileNotFoundError ==
  /\ pc = "except" /\ exc = "FileNotFoundError"
  /\ log' = Append(log, ErrorLog("main", exc))
  /\ Exit1

\* except ValueError
ExceptValueError ==
  /\ pc = "except" /\ exc = "ValueError"
  /\ log' = Append(log, ErrorLog("main", exc))
  /\ Exit1

\* except TypeError
ExceptTypeError ==
  /\ pc = "except" /\ exc = "TypeError"
  /\ log' = Append(log, ErrorLog("main", exc))
  /\ Exit1

\* a KeyError clause that logs like its neighbours
ExceptKeyError_logging ==
  /\ pc = "except" /\ exc = "KeyError"
  /\ log' = Append(log, ErrorLog("main", exc))
  /\ Exit1

\* a KeyError clause that calls sys.exit() without a status
ExceptKeyError_exit0 ==
  /\ pc = "except" /\ exc = "KeyError"
  /\ exit_status' = 0
  /\ pc' = "exited"
  /\ UNCHANGED <<args, file_type, output_file, df, files, files0, exc, log, read_fmt,
                 write_fmt, df0, df1, trace>>

\* except KeyError: exits without logging
ExceptKeyError ==
  /\ pc = "except" /\ exc = "KeyError"
  /\ UNCHANGED log
  /\ Exit1

\* except Exception
ExceptException ==
  /\ pc = "except" /\ exc = "Exception"
  /\ log' = Append(log, ErrorLog("main", exc))
  /\ Exit1

Next ==
  \/ ParseArgs
  \/ ResolveFileType
  \/ Load
  \/ Sanitize
  \/ Write
  \/ ExceptFileNotFoundError
  \/ ExceptValueError
  \/ ExceptTypeError
  \/ ExceptKeyError
  \/ ExceptException

Spec == Init /\ [][Next]_vars

(* ------------------------- properties of main -------------------------- *)
StepOK(step) == \E i \in 1..Len(trace) : trace[i] = Step(step, None)
Failed(step) == \E i \in 1..Len(trace) : trace[i].step = step /\ trace[i].raised # None
Reached(step) == \E i \in 1..Len(trace) : trace[i].step = step
AllSucceeded == StepOK("resolve") /\ StepOK("load") /\ StepOK("sanitize") /\ StepOK("write")
ErrorCount == Cardinality({i \in 1..Len(log) : log[i].level = "ERROR"})
Exited == pc = "exited"

\* C6 as claimed: every run ends with status 0 or 1, 0 exactly when file-type
\* resolution, Loader, Sanitizer and Writer all succeeded, 1 for every failure,
\* a rejected command line included
C6_ExitZeroOrOne ==
  Exited => /\ exit_status \in {0, 1}
            /\ exit_status = 0 <=> AllSucceeded

\* C6 as amended: a run whose command line argparse accepts ends with status 0 or 1,
\* 0 exactly when the four steps all succeeded; a rejected command line ends with
\* status 2 and a help request with status 0, both before any step; and no run
\* stops anywhere but at its exit
C6_ExitStatus ==
  /\ Exited =>
       CASE args.argv = "bad" -> exit_status = 2 /\ trace = <<>>
         [] args.argv = "help" -> exit_status = 0 /\ trace = <<>>
         [] OTHER -> /\ exit_status \in {0, 1}
                     /\ exit_status = 0 <=> AllSucceeded
  /\ ~Exited => (exit_status = -1 /\ ENABLED Next)

C6_Witness ==
  /\ Exited /\ args.argv = "ok" /\ exit_status = 1
  /\ trace[Len(trace)] = Step("sanitize", "KeyError")

\* C7: the Writer runs only after the Sanitizer returned successfully; once
\* file-type resolution, the Loader or the Sanitizer has failed, nothing is ever
\* written and every path holds what it held at the start
C7_WriteOnlyAfterSanitize ==
  /\ (Reached("write") \/ write_fmt # None) => StepOK("sanitize")
  /\ (Failed("resolve") \/ Failed("load") \/ Failed("sanitize")) =>
       (~Reached("write") /\ write_fmt = None /\ files = files0)

C7_Witness ==
  /\ Exited /\ Failed("sanitize") /\ trace[Len(trace)] = Step("sanitize", "TypeError")
  /\ args.output_file = None /\ output_file = args.input_file
  /\ files[output_file].state = "ok" /\ files = files0

\* C8: every run that ends with status 1 has emitted at least one error-level
\* message, whichever step failed and whatever it raised
C8_EveryFailureLogged ==
  (Exited /\ exit_status = 1) => ErrorCount >= 1

\* C9: when the loaded table lacks the target column, the run emits exactly one
\* error-level message, the Sanitizer's, and exits with status 1
C9_AbsentColumnLoggedOnce ==
  (StepOK("load") /\ ~HasColumn(files0[args.input_file].table, args.column_name)) =>
    /\ ErrorCount <= 1
    /\ \A i \in 1..Len(log) : log[i].level = "ERROR" => log[i].origin = "sanitize"
    /\ Exited => (ErrorCount = 1 /\ exit_status = 1)

C9_Witness ==
  /\ Exited /\ StepOK("load")
  /\ ~HasColumn(files0[args.input_file].table, args.column_name)
  /\ log[Len(log)] = ErrorLog("sanitize", "KeyError") /\ exit_status = 1

\* C10: with --file_type the given format is the one read and the one written,
\* whatever the extensions; without it the format is csv for a .csv input and json
\* for a .json input (extension compared without regard to case); without it and
\* with any other input path the run exits with status 1 on a ValueError before
\* any read or write
C10_FileTypeResolution ==
  LET ext == lower(args.input_file.ext)
      UsedOnly(fmt) == /\ Reached("load") => read_fmt = fmt
                       /\ Reached("write") => write_fmt = fmt
                       /\ read_fmt \in {None, fmt} /\ write_fmt \in {None, fmt}
  IN  /\ args.file_type # None => UsedOnly(args.file_type)
      /\ (args.file_type = None /\ ext = ".csv") => UsedOnly("csv")
      /\ (args.file_type = None /\ ext = ".json") => UsedOnly("json")
      /\ (args.file_type = None /\ ext \notin {".csv", ".json"} /\ Exited
            /\ args.argv = "ok") =>
           /\ exit_status = 1
           /\ trace = <<Step("resolve", "ValueError")>>
           /\ read_fmt = None /\ write_fmt = None /\ files = files0

C10_Witness ==
  /\ Exited /\ exit_status = 0
  /\ args.file_type = "json" /\ args.input_file.ext = ".csv" /\ args.output_file # None
  /\ read_fmt = "json" /\ write_fmt = "json"
====
